---- MODULE Spec2Model ----
\* express-io-validator: request validation middleware over io-ts codecs.
\* Model of src/src/index.ts (lines 230-485), the codecs of the sample
\* application and the mock request/response/next of the test suite.
EXTENDS Integers, Sequences, FiniteSets, TLC

VARIABLES pipeline, route, req, res, pc, calls, pure

vars == <<pipeline, route, req, res, pc, calls, pure>>

\* ---------------------------------------------------------------------
\* Bounds
\* ---------------------------------------------------------------------
\* numbers occurring in raw request data are 0..MaxNum
MaxNum == 0

\* ---------------------------------------------------------------------
\* JavaScript values
\* ---------------------------------------------------------------------
Undef == [ty |-> "undefined"]
Null == [ty |-> "null"]
Str(s) == [ty |-> "string", s |-> s]
Num(n) == [ty |-> "number", n |-> n]
Bool(b) == [ty |-> "boolean", b |-> b]
\* an object is its own properties in insertion order
Obj(entries) == [ty |-> "object", props |-> entries]
Arr(items) == [ty |-> "array", items |-> items]
P(k, v) == [k |-> k, v |-> v]

IsNullish(v) == v = Undef \/ v = Null

HasOwn(o, k) == \E i \in 1..Len(o.props) : o.props[i].k = k

\* o[k]
Get(o, k) ==
  IF HasOwn(o, k)
  THEN o.props[CHOOSE i \in 1..Len(o.props) : o.props[i].k = k].v
  ELSE Undef

\* o[k] = v
Set(o, k, v) ==
  IF HasOwn(o, k)
  THEN Obj([i \in 1..Len(o.props) |->
              IF o.props[i].k = k THEN P(k, v) ELSE o.props[i]])
  ELSE Obj(Append(o.props, P(k, v)))

Digits == <<"0", "1", "2", "3", "4", "5", "6", "7", "8", "9">>

IsDigit(c) == \E d \in 1..10 : Digits[d] = c

DigitVal(c) == (CHOOSE d \in 1..10 : Digits[d] = c) - 1

RECURSIVE NumberToString(_)
\* `${n}` / String(n) for a non-negative integer
NumberToString(n) ==
  IF n < 10 THEN Digits[n + 1]
  ELSE NumberToString(n \div 10) \o Digits[(n % 10) + 1]

RECURSIVE DigitsValue(_, _)
DigitsValue(s, i) ==
  IF i = 0 THEN 0
  ELSE 10 * DigitsValue(s, i - 1) + DigitVal(SubSeq(s, i, i))

\* isNaN(Number(s)) for a string s
NumberIsNaN(s) == \E i \in 1..Len(s) : ~IsDigit(SubSeq(s, i, i))

\* Number(s) for a string s with !isNaN(Number(s)); Number("") is 0
NumberOf(s) == DigitsValue(s, Len(s))

RECURSIVE Join(_, _)
\* Array.prototype.join
Join(ss, sep) ==
  IF Len(ss) = 0 THEN ""
  ELSE IF Len(ss) = 1 THEN ss[1]
  ELSE ss[1] \o sep \o Join(Tail(ss), sep)

\* String(v) for a primitive v
StringOf(v) ==
  CASE v.ty = "string" -> v.s
    [] v.ty = "number" -> NumberToString(v.n)
    [] v.ty = "null" -> "null"
    [] OTHER -> "undefined"

RECURSIVE JSONstringify(_)
RECURSIVE JSONentries(_)
\* JSON.stringify of the members of an object; undefined members are left out
JSONentries(entries) ==
  IF Len(entries) = 0 THEN <<>>
  ELSE IF entries[1].v = Undef THEN JSONentries(Tail(entries))
  ELSE <<"\"" \o entries[1].k \o "\":" \o JSONstringify(entries[1].v)>>
         \o JSONentries(Tail(entries))

JSONstringify(v) ==
  CASE v.ty = "string" -> "\"" \o v.s \o "\""
    [] v.ty = "number" -> NumberToString(v.n)
    [] v.ty = "object" -> "{" \o Join(JSONentries(v.props), ",") \o "}"
    [] v.ty = "array" ->
         "[" \o Join([i \in 1..Len(v.items) |->
                        IF IsNullish(v.items[i]) THEN "null"
                        ELSE JSONstringify(v.items[i])], ",") \o "]"
    [] OTHER -> "null"

\* ---------------------------------------------------------------------
\* io-ts codecs (t.string, t.number, t.type, NUMBER_FROM_STRING)
\* ---------------------------------------------------------------------
t_string == [tag |-> "string"]
t_number == [tag |-> "number"]
NUMBER_FROM_STRING == [tag |-> "NUMBER_FROM_STRING"]
\* t.type({k1: c1, ...}); props is the sequence of [k, v] with v a codec
t_type(props) == [tag |-> "type", props |-> props]

RECURSIVE CodecName(_)
\* codec.name
CodecName(codec) ==
  IF codec.tag = "type"
  THEN "{ " \o Join([i \in 1..Len(codec.props) |->
                       codec.props[i].k \o ": " \o CodecName(codec.props[i].v)],
                    ", ") \o " }"
  ELSE codec.tag

\* Either
left(e) == [tag |-> "Left", left |-> e]
right(a) == [tag |-> "Right", right |-> a]
isLeft(e) == e.tag = "Left"

\* one entry of a validation context
ContextEntry(key, codec, actual) ==
  [key |-> key, type |-> [name |-> CodecName(codec)], actual |-> actual]

\* t.failure(value, context, message)
failure(value, context, message) ==
  left(<<[value |-> value, context |-> context, message |-> message]>>)

RECURSIVE codecValidate(_, _, _)
RECURSIVE typeValidateProps(_, _, _, _, _)
\* the loop of t.type's validate over its properties: a is the output object
\* so far, errors the issues collected so far
typeValidateProps(props, i, a, errors, c) ==
  IF i > Len(props)
  THEN IF Len(errors) > 0 THEN left(errors) ELSE right(a)
  ELSE LET k == props[i].k
           ak == Get(a, k)
           result == codecValidate(props[i].v, ak,
                                   Append(c, ContextEntry(k, props[i].v, ak)))
       IN IF isLeft(result)
          THEN typeValidateProps(props, i + 1, a, errors \o result.left, c)
          ELSE LET vak == result.right
               IN IF vak # ak \/ (vak = Undef /\ ~HasOwn(a, k))
                  THEN typeValidateProps(props, i + 1, Set(a, k, vak), errors, c)
                  ELSE typeValidateProps(props, i + 1, a, errors, c)

\* codec.validate(u, c)
codecValidate(codec, u, c) ==
  CASE codec.tag = "string" ->
         IF u.ty = "string" THEN right(u) ELSE failure(u, c, Undef)
    [] codec.tag = "number" ->
         IF u.ty = "number" THEN right(u) ELSE failure(u, c, Undef)
    [] codec.tag = "NUMBER_FROM_STRING" ->
         IF u.ty # "string"
         THEN failure(u, c, Str("Expected a number as a string"))
         ELSE IF NumberIsNaN(u.s)
              THEN failure(u, c, Str("Expected a number"))
              ELSE right(Num(NumberOf(u.s)))
    [] OTHER ->
         IF u.ty # "object" THEN failure(u, c, Undef)
         ELSE typeValidateProps(codec.props, 1, u, <<>>, c)

\* schema.decode(i)
decode(schema, i) == codecValidate(schema, i, <<ContextEntry("", schema, i)>>)

\* README "Validating Request Body"
USER_CODEC == t_type(<<P("name", t_string), P("age", t_number)>>)
\* sample application
QUERY_CODEC == t_type(<<P("name", t_string), P("age", NUMBER_FROM_STRING)>>)

\* ---------------------------------------------------------------------
\* src/src/index.ts
\* ---------------------------------------------------------------------
Fn(id) == [ty |-> "function", id |-> id]

\* lastContext?.key
LastKey(context) ==
  IF Len(context) = 0 THEN "" ELSE context[Len(context)].key

\* LastTypeName reading the type of the first context entry
LastTypeName_First(context) ==
  IF Len(context) = 0 THEN ""
  ELSE IF context[1].type = Undef THEN ""
  ELSE context[1].type.name

\* lastContext?.type?.name
LastTypeName(context) ==
  IF Len(context) = 0 THEN ""
  ELSE IF context[Len(context)].type = Undef THEN ""
  ELSE context[Len(context)].type.name

\* a || b on strings
OrElse(a, b) == IF a # "" THEN a ELSE b

\* formatOne without the slice(1) that drops the root entry
formatOne_KeepsRoot(err) ==
  LET keys == [i \in 1..Len(err.context) |-> err.context[i].key]
      path == Join(SelectSeq(keys, LAMBDA k : k # ""), ".")
      key == OrElse(path, OrElse(LastKey(err.context), "unknown"))
      expected == OrElse(LastTypeName(err.context), "unknown")
      actual == IF err.value.ty \in {"object", "array"}
                THEN JSONstringify(err.value)
                ELSE StringOf(err.value)
      message == "Invalid value for '" \o key \o "': expected " \o expected
                   \o ", got " \o actual
  IN Obj(<<P("key", Str(key)), P("expected", Str(expected)),
           P("actual", Str(actual)), P("message", Str(message))>>)

\* error.map((err) => ...): one FormattedError for one issue
formatOne(err) ==
  LET keys == [i \in 1..(IF Len(err.context) = 0 THEN 0 ELSE Len(err.context) - 1)
                 |-> err.context[i + 1].key]
      path == Join(SelectSeq(keys, LAMBDA k : k # ""), ".")
      key == OrElse(path, OrElse(LastKey(err.context), "unknown"))
      expected == OrElse(LastTypeName(err.context), "unknown")
      actual == IF err.value.ty \in {"object", "array"}
                THEN JSONstringify(err.value)
                ELSE StringOf(err.value)
      message == "Invalid value for '" \o key \o "': expected " \o expected
                   \o ", got " \o actual
  IN Obj(<<P("key", Str(key)), P("expected", Str(expected)),
           P("actual", Str(actual)), P("message", Str(message))>>)

\* formatValidationErrors merging an issue into an equal issue before it
formatValidationErrors_Dedup(error) ==
  LET idx == {i \in 1..Len(error) : i = 1 \/ error[i] # error[i - 1]}
      nth(k) == CHOOSE i \in idx : Cardinality({j \in idx : j <= i}) = k
  IN Arr([k \in 1..Cardinality(idx) |-> formatOne(error[nth(k)])])

formatValidationErrors(error) ==
  Arr([i \in 1..Len(error) |-> formatOne(error[i])])

defaultErrorHandler == Fn("defaultErrorHandler")
\* the custom handler of the test suite
customErrorHandler == Fn("customErrorHandler")
\* handlers whose result is null, undefined, 0, "", false
returnsNull == Fn("returnsNull")
returnsUndefined == Fn("returnsUndefined")
returnsZero == Fn("returnsZero")
returnsEmptyString == Fn("returnsEmptyString")
returnsFalse == Fn("returnsFalse")

\* callErrorHandler with a default handler that wraps the array as { errors }
callErrorHandler_DefaultWraps(errorHandler, error) ==
  CASE errorHandler = defaultErrorHandler ->
         Obj(<<P("errors", formatValidationErrors(error))>>)
    [] errorHandler = customErrorHandler ->
         Obj(<<P("custom", Str("error")), P("count", Num(Len(error)))>>)
    [] errorHandler = returnsNull -> Null
    [] errorHandler = returnsZero -> Num(0)
    [] errorHandler = returnsEmptyString -> Str("")
    [] errorHandler = returnsFalse -> Bool(FALSE)
    [] OTHER -> Undef

\* errorHandler(error); an error handler is a function that returns a value
callErrorHandler(errorHandler, error) ==
  CASE errorHandler = defaultErrorHandler -> formatValidationErrors(error)
    [] errorHandler = customErrorHandler ->
         Obj(<<P("custom", Str("error")), P("count", Num(Len(error)))>>)
    [] errorHandler = returnsNull -> Null
    [] errorHandler = returnsZero -> Num(0)
    [] errorHandler = returnsEmptyString -> Str("")
    [] errorHandler = returnsFalse -> Bool(FALSE)
    [] OTHER -> Undef

\* payloadOf sending the handler's result without the ?? fallback
payloadOf_NoFallback(errorHandler, error) ==
  IF IsNullish(errorHandler) THEN Undef
  ELSE callErrorHandler(errorHandler, error)

\* payloadOf with || in place of ??
payloadOf_Or(errorHandler, error) ==
  LET r == IF IsNullish(errorHandler) THEN Undef
           ELSE callErrorHandler(errorHandler, error)
  IN IF IsNullish(r) \/ r = Num(0) \/ r = Str("") \/ r = Bool(FALSE)
     THEN Obj(<<P("errors", formatValidationErrors(error))>>)
     ELSE r

\* errorHandler?.(error) ?? { errors: formatValidationErrors(error) }
payloadOf(errorHandler, error) ==
  LET r == IF IsNullish(errorHandler) THEN Undef
           ELSE callErrorHandler(errorHandler, error)
  IN IF IsNullish(r)
     THEN Obj(<<P("errors", formatValidationErrors(error))>>)
     ELSE r

\* the mock response: res.status(code), res.json(data)
status(rs, code) ==
  [rs EXCEPT !.statusCode = code,
             !.sent = Append(@, [op |-> "status", code |-> code])]
json(rs, data) ==
  [rs EXCEPT !.jsonData = data,
             !.sent = Append(@, [op |-> "json", data |-> data])]

\* next() is a call of next with no argument
NoArgs == <<>>

\* what an invocation of a middleware did: the request and response it
\* leaves, the argument lists of its calls of next, its calls of
\* schema.decode and of the error handler, and the exception it raised: the
\* middleware have no throw statement, so there is none on any path
Outcome(rq, rs, next, decoded, handled) ==
  [req |-> rq, res |-> rs, next |-> next, decoded |-> decoded, handled |-> handled,
   thrown |-> Undef]

Skipped(rq, rs) == Outcome(rq, rs, <<NoArgs>>, <<>>, <<>>)

\* Rejected forwarding the issues to the host's error path with next(error)
Rejected_NextError(rq, rs, schema, raw, errorHandler, error) ==
  Outcome(rq, json(status(rs, 400), payloadOf(errorHandler, error)), <<<<error>>>>,
          <<[schema |-> schema, input |-> raw]>>,
          IF IsNullish(errorHandler) THEN <<>>
          ELSE <<[errorHandler |-> errorHandler, error |-> error]>>)

Rejected(rq, rs, schema, raw, errorHandler, error) ==
  Outcome(rq, json(status(rs, 400), payloadOf(errorHandler, error)), <<>>,
          <<[schema |-> schema, input |-> raw]>>,
          IF IsNullish(errorHandler) THEN <<>>
          ELSE <<[errorHandler |-> errorHandler, error |-> error]>>)

\* Accepted returning without the call of next()
Accepted_Defers(rq, rs, schema, raw) ==
  Outcome(rq, rs, <<>>, <<[schema |-> schema, input |-> raw]>>, <<>>)

Accepted(rq, rs, schema, raw) ==
  Outcome(rq, rs, <<NoArgs>>, <<[schema |-> schema, input |-> raw]>>, <<>>)

\* validateBody's middleware without the return after res.status(400).json(payload)
validateBodyMiddleware_NoReturn(schema, errorHandler, rq, rs) ==
  IF IsNullish(schema) THEN Skipped(rq, rs)
  ELSE LET result == decode(schema, rq.body)
       IN IF isLeft(result)
          THEN LET rej == Rejected(rq, rs, schema, rq.body, errorHandler, result.left)
               IN [rej EXCEPT !.req.body = Undef, !.next = <<NoArgs>>]
          ELSE Accepted([rq EXCEPT !.body = result.right], rs, schema, rq.body)

\* the middleware returned by validateBody(schema, errorHandler)
validateBodyMiddleware(schema, errorHandler, rq, rs) ==
  IF IsNullish(schema) THEN Skipped(rq, rs)
  ELSE LET result == decode(schema, rq.body)
       IN IF isLeft(result)
          THEN Rejected(rq, rs, schema, rq.body, errorHandler, result.left)
          ELSE Accepted([rq EXCEPT !.body = result.right], rs, schema, rq.body)

\* validateQuery's middleware storing req.query instead of result.right
validateQueryMiddleware_Raw(schema, errorHandler, rq, rs) ==
  IF IsNullish(schema) THEN Skipped(rq, rs)
  ELSE LET result == decode(schema, rq.query)
       IN IF isLeft(result)
          THEN Rejected(rq, rs, schema, rq.query, errorHandler, result.left)
          ELSE Accepted(rq,
                        [rs EXCEPT !.locals = Set(@, "typedQuery", rq.query)],
                        schema, rq.query)

\* the middleware returned by validateQuery(schema, errorHandler)
validateQueryMiddleware(schema, errorHandler, rq, rs) ==
  IF IsNullish(schema) THEN Skipped(rq, rs)
  ELSE LET result == decode(schema, rq.query)
       IN IF isLeft(result)
          THEN Rejected(rq, rs, schema, rq.query, errorHandler, result.left)
          ELSE Accepted(rq,
                        [rs EXCEPT !.locals = Set(@, "typedQuery", result.right)],
                        schema, rq.query)

\* validateParams' middleware leaving the raw params in req.params on success
validateParamsMiddleware_KeepsRaw(schema, errorHandler, rq, rs) ==
  IF IsNullish(schema) THEN Skipped(rq, rs)
  ELSE LET result == decode(schema, rq.params)
       IN IF isLeft(result)
          THEN Rejected(rq, rs, schema, rq.params, errorHandler, result.left)
          ELSE Accepted(rq, rs, schema, rq.params)

\* validateParams' middleware mirroring to res.locals as the combined step does
validateParamsMiddleware_Mirrors(schema, errorHandler, rq, rs) ==
  IF IsNullish(schema) THEN Skipped(rq, rs)
  ELSE LET result == decode(schema, rq.params)
       IN IF isLeft(result)
          THEN Rejected(rq, rs, schema, rq.params, errorHandler, result.left)
          ELSE Accepted([rq EXCEPT !.params = result.right],
                        [rs EXCEPT !.locals = Set(@, "typedParams", result.right)],
                        schema, rq.params)

\* the middleware returned by validateParams(schema, errorHandler)
validateParamsMiddleware(schema, errorHandler, rq, rs) ==
  IF IsNullish(schema) THEN Skipped(rq, rs)
  ELSE LET result == decode(schema, rq.params)
       IN IF isLeft(result)
          THEN Rejected(rq, rs, schema, rq.params, errorHandler, result.left)
          ELSE Accepted([rq EXCEPT !.params = result.right], rs, schema, rq.params)

\* the combined query step with typedQuery set to the raw query when there is no schema
combinedQueryMiddleware_NoGuard(schema, errorHandler, rq, rs) ==
  IF IsNullish(schema)
  THEN Skipped(rq, [rs EXCEPT !.locals = Set(@, "typedQuery", rq.query)])
  ELSE LET result == decode(schema, rq.query)
       IN IF isLeft(result)
          THEN Rejected(rq, rs, schema, rq.query, errorHandler, result.left)
          ELSE Accepted(rq,
                        [rs EXCEPT !.locals = Set(@, "typedQuery", result.right)],
                        schema, rq.query)

\* the combined query step overwriting req.query as the body step overwrites req.body
combinedQueryMiddleware_WritesReq(schema, errorHandler, rq, rs) ==
  IF IsNullish(schema) THEN Skipped(rq, rs)
  ELSE LET result == decode(schema, rq.query)
       IN IF isLeft(result)
          THEN Rejected(rq, rs, schema, rq.query, errorHandler, result.left)
          ELSE Accepted([rq EXCEPT !.query = result.right],
                        [rs EXCEPT !.locals = Set(@, "typedQuery", result.right)],
                        schema, rq.query)

\* the middleware returned by createCombinedQueryMiddleware
combinedQueryMiddleware(schema, errorHandler, rq, rs) ==
  IF IsNullish(schema) THEN Skipped(rq, rs)
  ELSE LET result == decode(schema, rq.query)
       IN IF isLeft(result)
          THEN Rejected(rq, rs, schema, rq.query, errorHandler, result.left)
          ELSE Accepted(rq,
                        [rs EXCEPT !.locals = Set(@, "typedQuery", result.right)],
                        schema, rq.query)

\* the combined params step sending the handler's result whatever it is
combinedParamsMiddleware_HandlerOnly(schema, errorHandler, rq, rs) ==
  IF IsNullish(schema) THEN Skipped(rq, rs)
  ELSE LET result == decode(schema, rq.params)
       IN IF isLeft(result)
          THEN LET rej == Rejected(rq, rs, schema, rq.params, errorHandler, result.left)
               IN [rej EXCEPT !.res = json(status(rs, 400),
                                           payloadOf_NoFallback(errorHandler,
                                                                result.left))]
          ELSE Accepted([rq EXCEPT !.params = result.right],
                        [rs EXCEPT !.locals = Set(@, "typedParams", result.right)],
                        schema, rq.params)

\* the combined params step without the return after res.status(400).json(payload)
combinedParamsMiddleware_NoReturn(schema, errorHandler, rq, rs) ==
  IF IsNullish(schema) THEN Skipped(rq, rs)
  ELSE LET result == decode(schema, rq.params)
       IN IF isLeft(result)
          THEN LET rej == Rejected(rq, rs, schema, rq.params, errorHandler, result.left)
               IN [rej EXCEPT !.req.params = Undef,
                              !.res.locals = Set(@, "typedParams", Undef),
                              !.next = <<NoArgs>>]
          ELSE Accepted([rq EXCEPT !.params = result.right],
                        [rs EXCEPT !.locals = Set(@, "typedParams", result.right)],
                        schema, rq.params)

\* the combined params step mirroring req.params before it is overwritten
combinedParamsMiddleware_MirrorRaw(schema, errorHandler, rq, rs) ==
  IF IsNullish(schema) THEN Skipped(rq, rs)
  ELSE LET result == decode(schema, rq.params)
       IN IF isLeft(result)
          THEN Rejected(rq, rs, schema, rq.params, errorHandler, result.left)
          ELSE Accepted([rq EXCEPT !.params = result.right],
                        [rs EXCEPT !.locals = Set(@, "typedParams", rq.params)],
                        schema, rq.params)

\* the middleware returned by createCombinedParamsMiddleware
combinedParamsMiddleware(schema, errorHandler, rq, rs) ==
  IF IsNullish(schema) THEN Skipped(rq, rs)
  ELSE LET result == decode(schema, rq.params)
       IN IF isLeft(result)
          THEN Rejected(rq, rs, schema, rq.params, errorHandler, result.left)
          ELSE Accepted([rq EXCEPT !.params = result.right],
                        [rs EXCEPT !.locals = Set(@, "typedParams", result.right)],
                        schema, rq.params)

\* the combined body step assigning result.right before looking at the result
combinedBodyMiddleware_AssignsFirst(schema, errorHandler, rq, rs) ==
  IF IsNullish(schema) THEN Skipped(rq, rs)
  ELSE LET result == decode(schema, rq.body)
       IN IF isLeft(result)
          THEN Rejected([rq EXCEPT !.body = Undef],
                        [rs EXCEPT !.locals = Set(@, "typedBody", Undef)],
                        schema, rq.body, errorHandler, result.left)
          ELSE Accepted([rq EXCEPT !.body = result.right],
                        [rs EXCEPT !.locals = Set(@, "typedBody", result.right)],
                        schema, rq.body)

\* the combined body step without the copy to res.locals.typedBody
combinedBodyMiddleware_NoMirror(schema, errorHandler, rq, rs) ==
  IF IsNullish(schema) THEN Skipped(rq, rs)
  ELSE LET result == decode(schema, rq.body)
       IN IF isLeft(result)
          THEN Rejected(rq, rs, schema, rq.body, errorHandler, result.left)
          ELSE Accepted([rq EXCEPT !.body = result.right], rs, schema, rq.body)

\* the middleware returned by createCombinedBodyMiddleware
combinedBodyMiddleware(schema, errorHandler, rq, rs) ==
  IF IsNullish(schema) THEN Skipped(rq, rs)
  ELSE LET result == decode(schema, rq.body)
       IN IF isLeft(result)
          THEN Rejected(rq, rs, schema, rq.body, errorHandler, result.left)
          ELSE Accepted([rq EXCEPT !.body = result.right],
                        [rs EXCEPT !.locals = Set(@, "typedBody", result.right)],
                        schema, rq.body)

\* a middleware closure: the function that made it and what it closes over
Closure(fn, schema, errorHandler) ==
  [fn |-> fn, schema |-> schema, errorHandler |-> errorHandler]

validateBody(schema, errorHandler) == Closure("validateBody", schema, errorHandler)
validateQuery(schema, errorHandler) == Closure("validateQuery", schema, errorHandler)
validateParams(schema, errorHandler) == Closure("validateParams", schema, errorHandler)
createCombinedQueryMiddleware(schema, errorHandler) ==
  Closure("createCombinedQueryMiddleware", schema, errorHandler)
createCombinedParamsMiddleware(schema, errorHandler) ==
  Closure("createCombinedParamsMiddleware", schema, errorHandler)
createCombinedBodyMiddleware(schema, errorHandler) ==
  Closure("createCombinedBodyMiddleware", schema, errorHandler)

\* a route handler of the caller
RouteHandler(id) ==
  [fn |-> "handler", schema |-> Undef, errorHandler |-> Undef, id |-> id]

\* the caller's route handler
handler == RouteHandler("handler")

\* schemas.query, schemas.params, schemas.body
Member(o, k) == IF "ty" \in DOMAIN o /\ o.ty = "object" THEN Get(o, k) ELSE Undef

\* validate returning the body step first
validate_BodyFirst(schemas, h) ==
  <<createCombinedBodyMiddleware(Member(schemas, "body"), Undef),
    createCombinedQueryMiddleware(Member(schemas, "query"), Undef),
    createCombinedParamsMiddleware(Member(schemas, "params"), Undef),
    h>>

validate(schemas, h) ==
  <<createCombinedQueryMiddleware(Member(schemas, "query"), Undef),
    createCombinedParamsMiddleware(Member(schemas, "params"), Undef),
    createCombinedBodyMiddleware(Member(schemas, "body"), Undef),
    h>>

validatedRoute(schema, h) == <<validateBody(schema, Undef), h>>

validateBodyWithErrorHandler(errorHandler, schema, h) ==
  <<validateBody(schema, errorHandler), h>>

validateQueryWithErrorHandler(errorHandler, schema, h) ==
  <<validateQuery(schema, errorHandler), h>>

validateParamsWithErrorHandler(errorHandler, schema, h) ==
  <<validateParams(schema, errorHandler), h>>

\* validateWithErrorHandler building the steps as validate does, without the handler
validateWithErrorHandler_DropsHandler(errorHandler, schemas, h) ==
  <<createCombinedQueryMiddleware(Member(schemas, "query"), Undef),
    createCombinedParamsMiddleware(Member(schemas, "params"), Undef),
    createCombinedBodyMiddleware(Member(schemas, "body"), Undef),
    h>>

validateWithErrorHandler(errorHandler, schemas, h) ==
  <<createCombinedQueryMiddleware(Member(schemas, "query"), errorHandler),
    createCombinedParamsMiddleware(Member(schemas, "params"), errorHandler),
    createCombinedBodyMiddleware(Member(schemas, "body"), errorHandler),
    h>>

\* Validator binding the error handler it was given, without the default
BoundHandler_PassThrough(errorHandler) == errorHandler

\* errorHandler ?? defaultErrorHandler
BoundHandler(errorHandler) ==
  IF IsNullish(errorHandler) THEN defaultErrorHandler ELSE errorHandler

\* Validator(errorHandler): the error handler each operation is bound to
Validator(errorHandler) ==
  [validateBody |-> BoundHandler(errorHandler),
   validateQuery |-> BoundHandler(errorHandler),
   validateParams |-> BoundHandler(errorHandler),
   validate |-> BoundHandler(errorHandler)]

\* ---------------------------------------------------------------------
\* Routes, requests and the host's middleware chain
\* ---------------------------------------------------------------------
Schemas == {USER_CODEC, QUERY_CODEC}
SchemaOpts == Schemas \cup {Undef}
ErrorHandlers == {customErrorHandler, returnsNull, returnsUndefined, returnsZero,
                  returnsEmptyString, returnsFalse}
ErrorHandlerOpts == ErrorHandlers \cup {Undef}

SchemasObjects ==
  {Obj(<<P("query", q), P("params", p), P("body", b)>>) :
     q \in SchemaOpts, p \in SchemaOpts, b \in SchemaOpts}

Route(api, errorHandler, arg) ==
  [api |-> api, errorHandler |-> errorHandler, arg |-> arg]

\* README "Basic Usage" and "Custom Error Handling": the codec itself is
\* passed where validate takes its schemas
ReadmeRoutes ==
  {Route("Validator.validate", e, s) : e \in {Undef, customErrorHandler}, s \in Schemas}

\* the ways a route can be built from the exported functions
Routes ==
  ReadmeRoutes \cup
  {Route(api, e, s) : api \in {"validateBody", "validateQuery", "validateParams"},
                      e \in ErrorHandlerOpts, s \in SchemaOpts}
  \cup {Route("validatedRoute", Undef, s) : s \in Schemas}
  \cup {Route("validate", Undef, ss) : ss \in SchemasObjects}
  \cup {Route(api, e, s) : api \in {"Validator.validateBody", "Validator.validateQuery",
                                    "Validator.validateParams"},
                           e \in ErrorHandlerOpts, s \in Schemas}
  \cup {Route("Validator.validate", e, ss) : e \in ErrorHandlerOpts, ss \in SchemasObjects}

\* the callables app.get(path, ...) is given for a route with handler h
InstallWith(rt, h) ==
  CASE rt.api = "validateBody" -> <<validateBody(rt.arg, rt.errorHandler)>>
    [] rt.api = "validateQuery" -> <<validateQuery(rt.arg, rt.errorHandler)>>
    [] rt.api = "validateParams" -> <<validateParams(rt.arg, rt.errorHandler)>>
    [] rt.api = "validatedRoute" -> validatedRoute(rt.arg, h)
    [] rt.api = "validate" -> validate(rt.arg, h)
    [] rt.api = "Validator.validateBody" ->
         validateBodyWithErrorHandler(Validator(rt.errorHandler).validateBody,
                                      rt.arg, h)
    [] rt.api = "Validator.validateQuery" ->
         validateQueryWithErrorHandler(Validator(rt.errorHandler).validateQuery,
                                       rt.arg, h)
    [] rt.api = "Validator.validateParams" ->
         validateParamsWithErrorHandler(Validator(rt.errorHandler).validateParams,
                                        rt.arg, h)
    [] OTHER ->
         validateWithErrorHandler(Validator(rt.errorHandler).validate,
                                  rt.arg, h)

\* the callables app.get(path, ...) is given for a route
Install(rt) == InstallWith(rt, handler)

Nums == 0..MaxNum
NumStrings == {Str(NumberToString(n)) : n \in Nums} \cup {Str("x")}

\* JSON bodies as body-parser leaves them in req.body
Bodies ==
  {Obj(<<P("name", a), P("age", b)>>) :
     a \in {Str("John"), Num(0)}, b \in {Num(n) : n \in Nums} \cup NumStrings}
  \cup {Obj(<<>>), Str("John")}

\* req.query and req.params as the router leaves them: objects of strings
StringRecords ==
  {Obj(<<P("name", Str("John")), P("age", b)>>) : b \in NumStrings} \cup {Obj(<<>>)}

\* res.locals as earlier middleware may have left it
Locals == {Obj(<<>>), Obj(<<P("user", Str("u1"))>>)}

\* one request is in flight
SingleRequest == {1}

\* the requests in flight
Requests == DOMAIN pc

\* no call of a function on its own is being looked at
NoPure == [fn |-> "none", input |-> Undef, output |-> Undef, done |-> FALSE]

MockRequest(body, query, params) == [body |-> body, query |-> query, params |-> params]
MockResponse(locals) ==
  [statusCode |-> 200, jsonData |-> Null, locals |-> locals, sent |-> <<>>]

Init ==
  /\ route \in Routes
  /\ pipeline = Install(route)
  /\ req \in [SingleRequest -> {MockRequest(b, q, p) :
                                  b \in Bodies, q \in StringRecords, p \in StringRecords}]
  /\ res \in [SingleRequest -> {MockResponse(l) : l \in Locals}]
  /\ pc = [r \in SingleRequest |-> 1]
  /\ calls = [r \in SingleRequest |-> <<>>]
  /\ pure = NoPure

\* the callable the host invokes next for request r
Current(r) == pipeline[pc[r]]

Pending(r, fn) == pc[r] \in 1..Len(pipeline) /\ Current(r).fn = fn

\* Step with res.locals kept in one object shared by the requests in flight
Step_SharedLocals(r, out) ==
  /\ req' = [req EXCEPT ![r] = out.req]
  /\ res' = [q \in Requests |->
               IF q = r THEN out.res ELSE [res[q] EXCEPT !.locals = out.res.locals]]
  /\ calls' = [calls EXCEPT ![r] =
                 Append(@, [mw |-> Current(r), at |-> pc[r],
                            pre |-> [req |-> req[r], res |-> res[r]],
                            out |-> out])]
  /\ pc' = [pc EXCEPT ![r] = IF Len(out.next) > 0 THEN @ + 1 ELSE 0]
  /\ UNCHANGED <<pipeline, route, pure>>

\* the host invokes a middleware and moves on iff it called next
Step(r, out) ==
  /\ req' = [req EXCEPT ![r] = out.req]
  /\ res' = [res EXCEPT ![r] = out.res]
  /\ calls' = [calls EXCEPT ![r] =
                 Append(@, [mw |-> Current(r), at |-> pc[r],
                            pre |-> [req |-> req[r], res |-> res[r]],
                            out |-> out])]
  /\ pc' = [pc EXCEPT ![r] = IF Len(out.next) > 0 THEN @ + 1 ELSE 0]
  /\ UNCHANGED <<pipeline, route, pure>>

InvokeValidateBody(r) ==
  /\ Pending(r, "validateBody")
  /\ Step(r, validateBodyMiddleware(Current(r).schema, Current(r).errorHandler,
                                    req[r], res[r]))

InvokeValidateQuery(r) ==
  /\ Pending(r, "validateQuery")
  /\ Step(r, validateQueryMiddleware(Current(r).schema, Current(r).errorHandler,
                                     req[r], res[r]))

InvokeValidateParams(r) ==
  /\ Pending(r, "validateParams")
  /\ Step(r, validateParamsMiddleware(Current(r).schema, Current(r).errorHandler,
                                      req[r], res[r]))

InvokeCombinedQuery(r) ==
  /\ Pending(r, "createCombinedQueryMiddleware")
  /\ Step(r, combinedQueryMiddleware(Current(r).schema, Current(r).errorHandler,
                                     req[r], res[r]))

InvokeCombinedParams(r) ==
  /\ Pending(r, "createCombinedParamsMiddleware")
  /\ Step(r, combinedParamsMiddleware(Current(r).schema, Current(r).errorHandler,
                                      req[r], res[r]))

InvokeCombinedBody(r) ==
  /\ Pending(r, "createCombinedBodyMiddleware")
  /\ Step(r, combinedBodyMiddleware(Current(r).schema, Current(r).errorHandler,
                                    req[r], res[r]))

\* the route handler is the last callable; it is given no next
InvokeHandler(r) ==
  /\ Pending(r, "handler")
  /\ calls' = [calls EXCEPT ![r] =
                 Append(@, [mw |-> Current(r), at |-> pc[r],
                            pre |-> [req |-> req[r], res |-> res[r]],
                            out |-> Outcome(req[r], res[r], <<>>, <<>>, <<>>)])]
  /\ pc' = [pc EXCEPT ![r] = Len(pipeline) + 1]
  /\ UNCHANGED <<pipeline, route, req, res, pure>>

Next ==
  \E r \in Requests :
    \/ InvokeValidateBody(r)
    \/ InvokeValidateQuery(r)
    \/ InvokeValidateParams(r)
    \/ InvokeCombinedQuery(r)
    \/ InvokeCombinedParams(r)
    \/ InvokeCombinedBody(r)
    \/ InvokeHandler(r)

Spec == Init /\ [][Next]_vars

\* ---------------------------------------------------------------------
\* Properties
\* ---------------------------------------------------------------------
BodyFns == {"validateBody", "createCombinedBodyMiddleware"}
QueryFns == {"validateQuery", "createCombinedQueryMiddleware"}
ParamsFns == {"validateParams", "createCombinedParamsMiddleware"}
SingleFns == {"validateBody", "validateQuery", "validateParams"}
CombinedFns == {"createCombinedQueryMiddleware", "createCombinedParamsMiddleware",
                "createCombinedBodyMiddleware"}

\* every invocation of a validation middleware made so far
Validations ==
  UNION {{calls[r][i] : i \in {j \in 1..Len(calls[r]) : calls[r][j].mw.fn # "handler"}} :
           r \in Requests}

\* the raw value of the source the invoked middleware validates
RawOf(c) ==
  IF c.mw.fn \in BodyFns THEN c.pre.req.body
  ELSE IF c.mw.fn \in QueryFns THEN c.pre.req.query
  ELSE c.pre.req.params

HasSchema(c) == ~IsNullish(c.mw.schema)
SchemaRejects(c) == HasSchema(c) /\ isLeft(decode(c.mw.schema, RawOf(c)))
SchemaAccepts(c) == HasSchema(c) /\ ~isLeft(decode(c.mw.schema, RawOf(c)))
DecodedOf(c) == decode(c.mw.schema, RawOf(c)).right
IssuesOf(c) == decode(c.mw.schema, RawOf(c)).left

\* the calls of res.status and res.json the invocation made
NewSent(c) == SubSeq(c.out.res.sent, Len(c.pre.res.sent) + 1, Len(c.out.res.sent))

CalledNextOnce(c) == c.out.next = <<NoArgs>>
WroteNoResponse(c) ==
  /\ c.out.res.sent = c.pre.res.sent
  /\ c.out.res.statusCode = c.pre.res.statusCode
  /\ c.out.res.jsonData = c.pre.res.jsonData
WroteOne400(c) ==
  /\ Len(NewSent(c)) = 2
  /\ NewSent(c)[1] = [op |-> "status", code |-> 400]
  /\ NewSent(c)[2].op = "json"
  /\ c.out.res.statusCode = 400
  /\ c.out.res.jsonData = NewSent(c)[2].data

\* C1: an invocation of a validation middleware either called next() exactly
\* once and wrote no response, or wrote exactly one response (status 400, then
\* one json payload) and never called next; never both, never neither.
C1_OneOutcome ==
  \A c \in Validations :
    \/ CalledNextOnce(c) /\ WroteNoResponse(c)
    \/ c.out.next = <<>> /\ WroteOne400(c)

\* a chain in which one step proceeded and a later step answered 400
C1_Witness ==
  \E r \in Requests :
    /\ Len(calls[r]) >= 2
    /\ CalledNextOnce(calls[r][1]) /\ WroteNoResponse(calls[r][1])
    /\ calls[r][Len(calls[r])].out.next = <<>>
    /\ WroteOne400(calls[r][Len(calls[r])])

\* the value found where body, params and query middleware install their result
InstalledBy(c) ==
  IF c.mw.fn \in BodyFns THEN c.out.req.body
  ELSE IF c.mw.fn \in QueryFns THEN Get(c.out.res.locals, "typedQuery")
  ELSE c.out.req.params

\* C2: when the schema accepts the raw input, the value installed at the
\* source's location (req.body, req.params, res.locals.typedQuery) is the
\* schema's decoded output, next() was called with no argument, and the
\* response status and body are untouched.
C2_InstallsDecoded ==
  \A c \in Validations :
    SchemaAccepts(c) =>
      /\ InstalledBy(c) = DecodedOf(c)
      /\ c.out.next = <<NoArgs>>
      /\ WroteNoResponse(c)

\* validateQuery accepted a query whose decoded value differs from the raw one
C2_Witness ==
  \E c \in Validations :
    /\ c.mw.fn = "validateQuery"
    /\ SchemaAccepts(c)
    /\ DecodedOf(c) # RawOf(c)
    /\ Get(c.out.res.locals, "typedQuery") = DecodedOf(c)

DefaultPayload(error) == Obj(<<P("errors", formatValidationErrors(error))>>)

\* C3 as stated: on a rejected input the payload is what the supplied error
\* handler returned, whatever that is, and { errors: formatIssues(issues) }
\* only when no error handler was supplied.
C3_Original ==
  \A c \in Validations :
    SchemaRejects(c) =>
      c.out.res.jsonData =
        IF IsNullish(c.mw.errorHandler) THEN DefaultPayload(IssuesOf(c))
        ELSE callErrorHandler(c.mw.errorHandler, IssuesOf(c))

\* C3 amended: on a rejected input the payload is what the supplied error
\* handler returned for the full issue list when that is neither null nor
\* undefined; it is { errors: formatIssues(issues) } when no error handler was
\* supplied or when the supplied one returned null or undefined.
C3_PayloadOrFallback ==
  \A c \in Validations :
    SchemaRejects(c) =>
      /\ WroteOne400(c)
      /\ c.out.res.jsonData =
           IF IsNullish(c.mw.errorHandler)
              \/ IsNullish(callErrorHandler(c.mw.errorHandler, IssuesOf(c)))
           THEN DefaultPayload(IssuesOf(c))
           ELSE callErrorHandler(c.mw.errorHandler, IssuesOf(c))
      /\ c.out.handled = IF IsNullish(c.mw.errorHandler) THEN <<>>
                         ELSE <<[errorHandler |-> c.mw.errorHandler,
                                 error |-> IssuesOf(c)]>>

\* a supplied handler returned null and the default payload was sent
C3_Witness ==
  \E c \in Validations :
    /\ SchemaRejects(c)
    /\ c.mw.errorHandler = returnsNull
    /\ Len(c.out.handled) = 1
    /\ c.out.res.jsonData = DefaultPayload(IssuesOf(c))

\* C4: with no schema, a validation middleware calls next() whatever the
\* input, leaves req.body, req.params, req.query and res.locals as they were,
\* calls neither decode nor the error handler, and does not set status 400.
C4_NoSchemaSkips ==
  \A c \in Validations :
    ~HasSchema(c) =>
      /\ c.out.next = <<NoArgs>>
      /\ c.out.req = c.pre.req
      /\ c.out.res.locals = c.pre.res.locals
      /\ c.out.decoded = <<>>
      /\ c.out.handled = <<>>
      /\ WroteNoResponse(c)
      /\ c.out.res.statusCode # 400

\* a step without a schema was passed an input which every schema rejects,
\* with an error handler at hand
C4_Witness ==
  \E c \in Validations :
    /\ ~HasSchema(c)
    /\ c.mw.fn \in CombinedFns
    /\ ~IsNullish(c.mw.errorHandler)
    /\ \A sch \in Schemas : isLeft(decode(sch, RawOf(c)))
    /\ c.out.next = <<NoArgs>>

\* the routes built by validate and by Validator(e).validate
IsValidateRoute == route.api \in {"validate", "Validator.validate"}

\* the request as the host received it
Orig(r) == IF Len(calls[r]) = 0 THEN req[r] ELSE calls[r][1].pre.req

\* res.locals as the first callable of the route found it
OrigLocals(r) == IF Len(calls[r]) = 0 THEN res[r].locals ELSE calls[r][1].pre.res.locals

ChainOrder == <<"createCombinedQueryMiddleware", "createCombinedParamsMiddleware",
                "createCombinedBodyMiddleware", "handler">>
ChainKeys == <<"typedQuery", "typedParams", "typedBody">>

\* the source step i of a validate chain reads, in request rq
StepSource(i, rq) == IF i = 1 THEN rq.query ELSE IF i = 2 THEN rq.params ELSE rq.body

StepHasSchema(i) == ~IsNullish(pipeline[i].schema)
StepRejects(i, rq) ==
  StepHasSchema(i) /\ isLeft(decode(pipeline[i].schema, StepSource(i, rq)))

\* the first step whose schema rejects its source, 0 if there is none
FirstRejecting(rq) ==
  IF \E i \in 1..3 : StepRejects(i, rq)
  THEN CHOOSE i \in 1..3 :
         StepRejects(i, rq) /\ \A j \in 1..(i - 1) : ~StepRejects(j, rq)
  ELSE 0

\* C5: the callables of a validate chain run in the order query, params,
\* body, handler; the first step whose schema rejects its source is the last
\* callable that ever runs for the request, and it leaves status 400.
C5_OrderAndHalt ==
  \A r \in Requests :
    IsValidateRoute =>
      /\ Len(pipeline) = 4
      /\ \A i \in 1..Len(calls[r]) :
           calls[r][i].at = i /\ calls[r][i].mw.fn = ChainOrder[i]
      /\ LET k == FirstRejecting(Orig(r))
         IN k # 0 =>
              /\ Len(calls[r]) <= k
              /\ Len(calls[r]) = k =>
                   /\ pc[r] = 0
                   /\ \A fn \in {ChainOrder[i] : i \in 1..4} : ~Pending(r, fn)
                   /\ res[r].statusCode = 400

\* the query step accepted, the params step rejected, and the chain stopped
\* before a body step that has a schema
C5_Witness ==
  \E r \in Requests :
    /\ IsValidateRoute
    /\ Len(calls[r]) = 2
    /\ SchemaAccepts(calls[r][1])
    /\ SchemaRejects(calls[r][2])
    /\ StepHasSchema(3)
    /\ pc[r] = 0
    /\ res[r].statusCode = 400

\* C6: in a validate chain the handler is invoked only after the query,
\* params and body steps all called next(); when it is invoked, the
\* side-channel entry of each source with a schema holds that schema's decoded
\* value of the request's source, and the entries of sources without a schema
\* are as the adapter found them.
C6_HandlerSeesDecoded ==
  \A r \in Requests :
    \A i \in 1..Len(calls[r]) :
      (IsValidateRoute /\ calls[r][i].mw.fn = "handler") =>
        /\ i = 4
        /\ \A j \in 1..3 : calls[r][j].out.next = <<NoArgs>>
        /\ \A j \in 1..3 :
             IF StepHasSchema(j)
             THEN /\ ~StepRejects(j, Orig(r))
                  /\ Get(calls[r][i].pre.res.locals, ChainKeys[j])
                       = decode(pipeline[j].schema, StepSource(j, Orig(r))).right
             ELSE /\ HasOwn(calls[r][i].pre.res.locals, ChainKeys[j])
                       = HasOwn(OrigLocals(r), ChainKeys[j])
                  /\ Get(calls[r][i].pre.res.locals, ChainKeys[j])
                       = Get(OrigLocals(r), ChainKeys[j])

\* the handler ran after a query step that coerced its source and a body step
\* without a schema
C6_Witness ==
  \E r \in Requests :
    /\ IsValidateRoute
    /\ Len(calls[r]) = 4
    /\ calls[r][4].mw.fn = "handler"
    /\ StepHasSchema(1) /\ ~StepHasSchema(3)
    /\ Get(calls[r][4].pre.res.locals, "typedQuery") # Orig(r).query
    /\ ~HasOwn(calls[r][4].pre.res.locals, "typedBody")

\* the keys res.locals can hold
LocalKeys == {"user", "typedQuery", "typedParams", "typedBody"}

\* res.locals differs from before the invocation at most at key
LocalsSameExcept(c, key) ==
  \A k \in LocalKeys \ {key} :
    /\ HasOwn(c.out.res.locals, k) = HasOwn(c.pre.res.locals, k)
    /\ Get(c.out.res.locals, k) = Get(c.pre.res.locals, k)

\* C7: no query-validating middleware writes req.query: after any run
\* req.query is the original raw value, and on success the decoded value is in
\* res.locals.typedQuery only.
C7_QueryNeverWritten ==
  /\ \A c \in Validations :
       c.mw.fn \in QueryFns =>
         /\ c.out.req = c.pre.req
         /\ SchemaAccepts(c) => Get(c.out.res.locals, "typedQuery") = DecodedOf(c)
  /\ \A r \in Requests :
       (\E i \in 1..Len(pipeline) : pipeline[i].fn \in QueryFns) =>
         req[r].query = Orig(r).query

\* a query step bound through Validator accepted a query it coerced: req.query
\* is still the raw value and differs from res.locals.typedQuery
C7_Witness ==
  \E c \in Validations :
    /\ c.mw.fn \in QueryFns
    /\ route.api \in {"Validator.validate", "Validator.validateQuery"}
    /\ SchemaAccepts(c)
    /\ c.out.req.query = RawOf(c)
    /\ Get(c.out.res.locals, "typedQuery") # c.out.req.query

\* C8: a single-source middleware writes nothing beyond its own source: on
\* success validateBody changes only req.body, validateParams only req.params,
\* validateQuery only res.locals.typedQuery; on failure the only writes are the
\* response status and JSON body.
C8_SingleSourceFrame ==
  \A c \in Validations :
    c.mw.fn \in SingleFns =>
      /\ SchemaAccepts(c) =>
           /\ WroteNoResponse(c)
           /\ c.mw.fn = "validateBody" =>
                /\ c.out.req.query = c.pre.req.query
                /\ c.out.req.params = c.pre.req.params
                /\ c.out.res.locals = c.pre.res.locals
           /\ c.mw.fn = "validateParams" =>
                /\ c.out.req.query = c.pre.req.query
                /\ c.out.req.body = c.pre.req.body
                /\ c.out.res.locals = c.pre.res.locals
           /\ c.mw.fn = "validateQuery" =>
                /\ c.out.req = c.pre.req
                /\ LocalsSameExcept(c, "typedQuery")
      /\ SchemaRejects(c) =>
           /\ c.out.req = c.pre.req
           /\ c.out.res.locals = c.pre.res.locals
           /\ WroteOne400(c)

\* validateParams accepted params it coerced and left a non-empty res.locals alone
C8_Witness ==
  \E c \in Validations :
    /\ c.mw.fn = "validateParams"
    /\ SchemaAccepts(c)
    /\ c.out.req.params # c.pre.req.params
    /\ HasOwn(c.pre.res.locals, "user")
    /\ c.out.res.locals = c.pre.res.locals

\* C9: in a validate chain a successful params step leaves req.params and
\* res.locals.typedParams holding the same decoded value, a successful body
\* step req.body and res.locals.typedBody; the query step writes
\* res.locals.typedQuery only and never the request.
C9_CombinedMirror ==
  \A c \in Validations :
    (c.mw.fn \in CombinedFns /\ SchemaAccepts(c)) =>
      /\ c.mw.fn = "createCombinedParamsMiddleware" =>
           /\ c.out.req.params = DecodedOf(c)
           /\ Get(c.out.res.locals, "typedParams") = c.out.req.params
      /\ c.mw.fn = "createCombinedBodyMiddleware" =>
           /\ c.out.req.body = DecodedOf(c)
           /\ Get(c.out.res.locals, "typedBody") = c.out.req.body
      /\ c.mw.fn = "createCombinedQueryMiddleware" =>
           /\ c.out.req = c.pre.req
           /\ Get(c.out.res.locals, "typedQuery") = DecodedOf(c)
           /\ LocalsSameExcept(c, "typedQuery")

\* the params step of a chain accepted params it coerced
C9_Witness ==
  \E c \in Validations :
    /\ c.mw.fn = "createCombinedParamsMiddleware"
    /\ SchemaAccepts(c)
    /\ DecodedOf(c) # RawOf(c)
    /\ c.out.req.params = DecodedOf(c)
    /\ Get(c.out.res.locals, "typedParams") = DecodedOf(c)

\* v is a FormattedError: { key, expected, actual, message }, all strings
IsFormattedError(v) ==
  /\ v.ty = "object"
  /\ [i \in 1..Len(v.props) |-> v.props[i].k] = <<"key", "expected", "actual", "message">>
  /\ \A i \in 1..Len(v.props) : v.props[i].v.ty = "string"

\* v is FormattedError[]
IsFormattedErrors(v) ==
  /\ v.ty = "array"
  /\ \A i \in 1..Len(v.items) : IsFormattedError(v.items[i])

\* v is { errors: FormattedError[] }
IsErrorsObject(v) ==
  /\ v.ty = "object"
  /\ Len(v.props) = 1
  /\ v.props[1].k = "errors"
  /\ IsFormattedErrors(v.props[1].v)

ValidatorApis == {"Validator.validateBody", "Validator.validateQuery",
                  "Validator.validateParams", "Validator.validate"}

\* C10 as stated: with no custom error handler, every entry point, the four
\* operations of Validator() included, answers a rejected input with status
\* 400 and a body of the shape { errors: FormattedError[] }.
C10_Original ==
  IsNullish(route.errorHandler) =>
    \A c \in Validations :
      SchemaRejects(c) =>
        c.out.res.statusCode = 400 /\ IsErrorsObject(c.out.res.jsonData)

\* C10 amended: with no custom error handler, validateBody, validateQuery,
\* validateParams, validatedRoute and the steps of validate answer a rejected
\* input with status 400 and a body of the shape { errors: FormattedError[] };
\* the four operations of Validator() answer it with status 400 and the bare
\* FormattedError[] array.
C10_DefaultShapes ==
  IsNullish(route.errorHandler) =>
    \A c \in Validations :
      SchemaRejects(c) =>
        /\ c.out.res.statusCode = 400
        /\ IF route.api \in ValidatorApis
           THEN IsFormattedErrors(c.out.res.jsonData)
           ELSE IsErrorsObject(c.out.res.jsonData)

\* a middleware made by Validator() answered a rejected input with the array
C10_Witness ==
  \E c \in Validations :
    /\ IsNullish(route.errorHandler)
    /\ route.api \in ValidatorApis
    /\ SchemaRejects(c)
    /\ c.out.res.statusCode = 400
    /\ c.out.res.jsonData.ty = "array"
    /\ Len(c.out.res.jsonData.items) > 0

\* C11: the middleware built by Validator() with no error handler answers a
\* rejected input with status 400 and the bare array of FormattedError: an
\* array, not an object, with at least one element, each carrying key,
\* expected, actual and message.
C11_BareArray ==
  (route.api \in ValidatorApis /\ IsNullish(route.errorHandler)) =>
    \A c \in Validations :
      SchemaRejects(c) =>
        /\ WroteOne400(c)
        /\ c.out.res.jsonData.ty = "array"
        /\ Len(c.out.res.jsonData.items) >= 1
        /\ Len(c.out.res.jsonData.items) = Len(IssuesOf(c))
        /\ \A i \in 1..Len(c.out.res.jsonData.items) :
             IsFormattedError(c.out.res.jsonData.items[i])

\* a step of Validator().validate answered a rejected input with an array of
\* two FormattedError
C11_Witness ==
  \E c \in Validations :
    /\ route.api = "Validator.validate"
    /\ IsNullish(route.errorHandler)
    /\ SchemaRejects(c)
    /\ c.out.res.jsonData.ty = "array"
    /\ Len(c.out.res.jsonData.items) = 2
    /\ IsFormattedError(c.out.res.jsonData.items[1])

\* the middleware the exported function fn returns, run on rq and rs
UnboundOutcome(fn, schema, errorHandler, rq, rs) ==
  CASE fn = "validateBody" -> validateBodyMiddleware(schema, errorHandler, rq, rs)
    [] fn = "validateQuery" -> validateQueryMiddleware(schema, errorHandler, rq, rs)
    [] fn = "validateParams" -> validateParamsMiddleware(schema, errorHandler, rq, rs)
    [] fn = "createCombinedQueryMiddleware" ->
         combinedQueryMiddleware(schema, errorHandler, rq, rs)
    [] fn = "createCombinedParamsMiddleware" ->
         combinedParamsMiddleware(schema, errorHandler, rq, rs)
    [] OTHER -> combinedBodyMiddleware(schema, errorHandler, rq, rs)

\* next called or not, status, JSON payload, request and side-channel writes
SameOutcome(a, b) == a.req = b.req /\ a.res = b.res /\ a.next = b.next

\* the function whose middleware is first in the pipeline a bound operation returns
FirstFn ==
  CASE route.api = "Validator.validateBody" -> "validateBody"
    [] route.api = "Validator.validateQuery" -> "validateQuery"
    [] route.api = "Validator.validateParams" -> "validateParams"
    [] OTHER -> "createCombinedQueryMiddleware"

\* C12 as stated: for every error handler argument e, supplied or omitted, the
\* middleware of Validator(e) produce the outcome of the unbound middleware
\* given e.
C12_Original ==
  route.api \in ValidatorApis =>
    /\ pipeline[1].fn = FirstFn
    /\ \A c \in Validations :
         SameOutcome(c.out, UnboundOutcome(c.mw.fn, c.mw.schema, route.errorHandler,
                                           c.pre.req, c.pre.res))

\* C12 amended: for every supplied error handler e the middleware of
\* Validator(e) produce the outcome of the unbound middleware given e; when e
\* is omitted they produce the outcome of the unbound middleware given
\* defaultErrorHandler.
C12_BindingOnly ==
  route.api \in ValidatorApis =>
    /\ pipeline[1].fn = FirstFn
    /\ \A c \in Validations :
         SameOutcome(c.out,
                     UnboundOutcome(c.mw.fn, c.mw.schema,
                                    IF IsNullish(route.errorHandler)
                                    THEN defaultErrorHandler
                                    ELSE route.errorHandler,
                                    c.pre.req, c.pre.res))

\* a step of Validator(customErrorHandler).validate rejected its source and
\* sent what the unbound step given customErrorHandler sends, which is not what
\* the step sends without a handler
C12_Witness ==
  \E c \in Validations :
    /\ route.api = "Validator.validate"
    /\ route.errorHandler = customErrorHandler
    /\ SchemaRejects(c)
    /\ c.out.res.jsonData = callErrorHandler(customErrorHandler, IssuesOf(c))
    /\ ~SameOutcome(c.out, UnboundOutcome(c.mw.fn, c.mw.schema, Undef,
                                          c.pre.req, c.pre.res))

\* a JSON payload with nothing in it
IsEmptyPayload(v) ==
  \/ IsNullish(v)
  \/ v = Str("")
  \/ v = Arr(<<>>)
  \/ v = Obj(<<>>)

\* the FormattedError list a default-shaped payload carries
ErrorItems(v) == IF v.ty = "array" THEN v.items ELSE v.props[1].v.items

\* C17 as stated: for every rejected input and every error handler
\* configuration, whatever a custom handler returns, the JSON payload written
\* with the 400 is non-empty.
C17_Original ==
  \A c \in Validations :
    SchemaRejects(c) => ~IsEmptyPayload(c.out.res.jsonData)

\* C17 amended: the payload written with the 400 is never null or undefined;
\* with no error handler, the default one, or a custom one that returned null
\* or undefined it holds at least one FormattedError; a custom handler's other
\* results are sent as they are, an empty one included.
C17_NonEmptyByDefault ==
  \A c \in Validations :
    SchemaRejects(c) =>
      LET data == c.out.res.jsonData
          e == c.mw.errorHandler
          r == IF IsNullish(e) THEN Undef ELSE callErrorHandler(e, IssuesOf(c))
      IN /\ WroteOne400(c)
         /\ ~IsNullish(data)
         /\ (IsNullish(r) \/ e = defaultErrorHandler) =>
              /\ IsErrorsObject(data) \/ IsFormattedErrors(data)
              /\ Len(ErrorItems(data)) >= 1
         /\ (~IsNullish(r) /\ e # defaultErrorHandler) => data = r

\* a custom handler returned "" for a rejected input and "" was sent
C17_Witness ==
  \E c \in Validations :
    /\ SchemaRejects(c)
    /\ c.mw.errorHandler = returnsEmptyString
    /\ WroteOne400(c)
    /\ c.out.res.jsonData = Str("")

MaxDepth == 4
MaxIssues == 2

ContextKeys == {"", "user", "profile", "name"}

\* the key sequences of contexts of at most MaxDepth entries
KeyPaths == UNION {[1..n -> ContextKeys] : n \in 0..MaxDepth}

\* the type recorded at the failing entry: none, one without a name, t.string
LastTypes == {Undef, [name |-> ""], [name |-> "string"]}

\* a context: every entry above the failing one is an object type
ContextOf(keys, lastType, actual) ==
  [i \in 1..Len(keys) |->
     [key |-> keys[i],
      type |-> IF i = Len(keys) THEN lastType ELSE [name |-> "object"],
      actual |-> actual]]

IssueValues == {Undef, Str(""), Num(0), Obj(<<P("age", Num(0))>>)}

\* t.ValidationError
Issues ==
  {[value |-> v, context |-> ContextOf(keys, ty, v), message |-> Undef] :
     v \in IssueValues, keys \in KeyPaths, ty \in LastTypes}

\* the issue USER_CODEC reports for a missing age
AgeIssue == decode(USER_CODEC, Obj(<<P("name", Str("John"))>>)).left[1]

\* t.Errors: an issue followed by copies of it or by issues of another field
IssueLists ==
  {<<>>} \cup
  {[i \in 1..n |-> IF i = 1 \/ dup THEN a ELSE AgeIssue] :
     a \in Issues, n \in 1..MaxIssues, dup \in BOOLEAN}

\* the route handlers a caller passes
RouteHandlers == {handler, RouteHandler("getUser")}

\* the functions that return a pipeline
PipelineApis == {"validatedRoute", "validate"} \cup ValidatorApis

FormatCall(error) ==
  [fn |-> "formatValidationErrors", input |-> [error |-> error], output |-> Undef,
   done |-> FALSE]
BuildCall(rt, h) ==
  [fn |-> "build", input |-> [route |-> rt, handler |-> h], output |-> Undef,
   done |-> FALSE]

InitPure ==
  /\ pure \in {FormatCall(error) : error \in IssueLists}
         \cup {BuildCall(rt, h) : rt \in {x \in Routes : x.api \in PipelineApis},
                                  h \in RouteHandlers}
  /\ route = Route("none", Undef, Undef)
  /\ pipeline = <<>>
  /\ req = <<>>
  /\ res = <<>>
  /\ pc = <<>>
  /\ calls = <<>>

FormatErrors ==
  /\ pure.fn = "formatValidationErrors"
  /\ ~pure.done
  /\ pure' = [pure EXCEPT !.output = formatValidationErrors(pure.input.error),
                          !.done = TRUE]
  /\ UNCHANGED <<pipeline, route, req, res, pc, calls>>

BuildPipeline ==
  /\ pure.fn = "build"
  /\ ~pure.done
  /\ pure' = [pure EXCEPT !.output = InstallWith(pure.input.route, pure.input.handler),
                          !.done = TRUE]
  /\ UNCHANGED <<pipeline, route, req, res, pc, calls>>

NextPure == FormatErrors \/ BuildPipeline

SpecPure == InitPure /\ [][NextPure]_vars

Built == pure.fn = "build" /\ pure.done
Formatted == pure.fn = "formatValidationErrors" /\ pure.done

\* the function whose middleware a two-element pipeline starts with
SingleFnOf(api) ==
  CASE api \in {"validatedRoute", "Validator.validateBody"} -> "validateBody"
    [] api = "Validator.validateQuery" -> "validateQuery"
    [] OTHER -> "validateParams"

\* C13: every pipeline builder returns its validation middleware followed by
\* the caller's handler, unchanged, as the last element: validate and
\* Validator(e).validate return exactly the 4 callables query step, params
\* step, body step, handler whatever schemas are given; validatedRoute and
\* Validator(e).validateBody / validateQuery / validateParams return exactly
\* the 2 elements middleware, handler.
C13_PipelineShape ==
  Built =>
    LET rt == pure.input.route
        h == pure.input.handler
        out == pure.output
    IN /\ out[Len(out)] = h
       /\ rt.api \in {"validate", "Validator.validate"} =>
            /\ Len(out) = 4
            /\ [i \in 1..3 |-> out[i].fn] = SubSeq(ChainOrder, 1, 3)
            /\ out[1].schema = Member(rt.arg, "query")
            /\ out[2].schema = Member(rt.arg, "params")
            /\ out[3].schema = Member(rt.arg, "body")
       /\ rt.api \notin {"validate", "Validator.validate"} =>
            /\ Len(out) = 2
            /\ out[1].fn = SingleFnOf(rt.api)
            /\ out[1].schema = rt.arg

\* validate given only a body schema returned four callables ending with the
\* caller's getUser handler
C13_Witness ==
  /\ Built
  /\ pure.input.route.api = "validate"
  /\ Member(pure.input.route.arg, "query") = Undef
  /\ Member(pure.input.route.arg, "params") = Undef
  /\ Member(pure.input.route.arg, "body") = USER_CODEC
  /\ pure.input.handler = RouteHandler("getUser")
  /\ Len(pure.output) = 4
  /\ pure.output[4] = RouteHandler("getUser")

\* the value of property k of a FormattedError
Field(fe, k) == Get(fe, k).s

\* C14: formatValidationErrors maps the issue list one to one: the output has
\* the length of the input and its i-th FormattedError is what the i-th issue
\* alone is formatted to; equal issues stay apart, nothing is merged, dropped
\* or reordered.
C14_OneToOne ==
  Formatted =>
    /\ pure.output.ty = "array"
    /\ Len(pure.output.items) = Len(pure.input.error)
    /\ \A i \in 1..Len(pure.input.error) :
         pure.output.items[i] = formatValidationErrors(<<pure.input.error[i]>>).items[1]

\* two equal issues for one field were formatted to two equal FormattedError
C14_Witness ==
  /\ Formatted
  /\ Len(pure.input.error) = 2
  /\ pure.input.error[1] = pure.input.error[2]
  /\ Len(pure.output.items) = 2
  /\ pure.output.items[1] = pure.output.items[2]
  /\ Field(pure.output.items[1], "key") = "user.name"

\* the names of the context steps after the first that are not empty
NamedSteps(context) ==
  SelectSeq([i \in 1..(IF Len(context) = 0 THEN 0 ELSE Len(context) - 1)
               |-> context[i + 1].key],
            LAMBDA k : k # "")

\* C15: the key of a FormattedError is the names of the context steps after the
\* first that are not empty, joined with '.'; if there is no such step it is
\* the name of the last context step when that is not empty, and "unknown"
\* otherwise. A failure at user -> profile -> name under the root has key
\* "user.profile.name", and no key is the empty string.
C15_KeyPath ==
  Formatted =>
    \A i \in 1..Len(pure.input.error) :
      LET context == pure.input.error[i].context
          key == Field(pure.output.items[i], "key")
      IN /\ key # ""
         /\ NamedSteps(context) # <<>> => key = Join(NamedSteps(context), ".")
         /\ (NamedSteps(context) = <<>> /\ Len(context) > 0
               /\ context[Len(context)].key # "") =>
              key = context[Len(context)].key
         /\ (NamedSteps(context) = <<>>
               /\ (Len(context) = 0 \/ context[Len(context)].key = "")) =>
              key = "unknown"
         /\ [j \in 1..Len(context) |-> context[j].key]
              = <<"", "user", "profile", "name">> => key = "user.profile.name"

\* an issue at user -> profile -> name under the root got the key
\* "user.profile.name"
C15_Witness ==
  /\ Formatted
  /\ Len(pure.input.error) >= 1
  /\ [j \in 1..Len(pure.input.error[1].context) |-> pure.input.error[1].context[j].key]
       = <<"", "user", "profile", "name">>
  /\ Field(pure.output.items[1], "key") = "user.profile.name"

\* C16: expected is the type name recorded at the last context step, or
\* "unknown" when that step, its type or the name is absent or empty; message
\* is "Invalid value for '<key>': expected <expected>, got <actual>" with the
\* record's own key, expected and actual.
C16_ExpectedAndMessage ==
  Formatted =>
    \A i \in 1..Len(pure.input.error) :
      LET context == pure.input.error[i].context
          fe == pure.output.items[i]
          named == /\ Len(context) > 0
                   /\ context[Len(context)].type # Undef
                   /\ context[Len(context)].type.name # ""
      IN /\ named => Field(fe, "expected") = context[Len(context)].type.name
         /\ ~named => Field(fe, "expected") = "unknown"
         /\ Field(fe, "message") =
              "Invalid value for '" \o Field(fe, "key") \o "': expected "
                \o Field(fe, "expected") \o ", got " \o Field(fe, "actual")

\* an issue below an object type whose last step records t.string was
\* formatted with expected "string" and the message built from its fields
C16_Witness ==
  /\ Formatted
  /\ Len(pure.input.error) >= 1
  /\ Len(pure.input.error[1].context) = 2
  /\ pure.input.error[1].context[2].type = [name |-> "string"]
  /\ pure.input.error[1].value = Num(0)
  /\ Field(pure.output.items[1], "expected") = "string"
  /\ Field(pure.output.items[1], "message")
       = "Invalid value for 'name': expected string, got 0"

\* ---- the same body or params middleware installed twice on a route ----

InitTwice ==
  /\ route \in {rt \in Routes : rt.api \in {"validateBody", "validateParams"}
                                 /\ rt.arg \in Schemas}
  /\ pipeline = Install(route) \o Install(route)
  /\ req \in [SingleRequest -> {MockRequest(b, q, p) :
                                  b \in Bodies, q \in StringRecords, p \in StringRecords}]
  /\ res \in [SingleRequest -> {MockResponse(l) : l \in Locals}]
  /\ pc = [r \in SingleRequest |-> 1]
  /\ calls = [r \in SingleRequest |-> <<>>]
  /\ pure = NoPure

NextTwice ==
  \E r \in Requests :
    \/ InvokeValidateBody(r)
    \/ InvokeValidateParams(r)

SpecTwice == InitTwice /\ [][NextTwice]_vars

\* the schema has a property decoded by NUMBER_FROM_STRING
HasNumberFromString(schema) ==
  /\ schema.tag = "type"
  /\ \E i \in 1..Len(schema.props) : schema.props[i].v = NUMBER_FROM_STRING

\* decoding the decoded output of invocation c again succeeds with the same value
RedecodesSame(c) ==
  LET again == decode(c.mw.schema, DecodedOf(c))
  IN ~isLeft(again) /\ again.right = DecodedOf(c)

\* the second run called next() and left the request as the first run left it
SecondRunPasses(r) ==
  /\ calls[r][2].out.next = <<NoArgs>>
  /\ calls[r][2].out.req = calls[r][1].out.req
  /\ WroteNoResponse(calls[r][2])

\* the second run answered 400 and left the request as the first run left it
SecondRunRejects(r) ==
  /\ calls[r][2].out.next = <<>>
  /\ calls[r][2].out.req = calls[r][1].out.req
  /\ WroteOne400(calls[r][2])

\* C19 as stated: for every schema and every raw input it accepts, decoding
\* the decoded output again succeeds with the identical value, so a second run
\* of the same body or params middleware calls next() again and leaves
\* req.body / req.params unchanged.
C19_Original ==
  \A r \in Requests :
    (Len(calls[r]) >= 1 /\ SchemaAccepts(calls[r][1])) =>
      /\ RedecodesSame(calls[r][1])
      /\ Len(calls[r]) = 2 => SecondRunPasses(r)

\* C19 amended: for a schema built from t.string, t.number and t.type alone,
\* decoding the decoded output again succeeds with the identical value and a
\* second run of the same body or params middleware calls next() again and
\* leaves req.body / req.params unchanged; for a schema with a
\* NUMBER_FROM_STRING property the decoded output is rejected on decoding it
\* again, and the second run answers 400 without calling next, req.body /
\* req.params keeping the first run's decoded value.
C19_IdempotentUnlessCoercing ==
  \A r \in Requests :
    (Len(calls[r]) >= 1 /\ SchemaAccepts(calls[r][1])) =>
      LET c == calls[r][1]
      IN /\ ~HasNumberFromString(c.mw.schema) =>
              /\ RedecodesSame(c)
              /\ Len(calls[r]) = 2 => SecondRunPasses(r)
         /\ HasNumberFromString(c.mw.schema) =>
              /\ isLeft(decode(c.mw.schema, DecodedOf(c)))
              /\ Len(calls[r]) = 2 => SecondRunRejects(r)

\* validateParams with the sample codec accepted the params, decoding age to
\* a number, and its second run rejected them with 400
C19_Witness ==
  \E r \in Requests :
    /\ Len(calls[r]) = 2
    /\ calls[r][1].mw.fn = "validateParams"
    /\ calls[r][1].mw.schema = QUERY_CODEC
    /\ SchemaAccepts(calls[r][1])
    /\ Get(calls[r][1].out.req.params, "age") = Num(0)
    /\ SecondRunRejects(r)

\* ---- two requests in flight on one route ----

TwoRequests == {1, 2}

\* routes of every kind, with the schemas of the sample application
ConcRoutes ==
  {rt \in Routes :
     /\ rt.errorHandler \in {Undef, customErrorHandler}
     /\ \/ /\ rt.api \in {"validate", "Validator.validate"}
           /\ Member(rt.arg, "query") \in {Undef, QUERY_CODEC}
           /\ Member(rt.arg, "params") \in {Undef, QUERY_CODEC}
           /\ Member(rt.arg, "body") \in {Undef, USER_CODEC}
        \/ /\ rt.api \in {"validateBody", "validateQuery", "validateParams"}
           /\ rt.errorHandler = Undef
           /\ rt.arg \in Schemas}

\* a request whose sources are each either accepted by those schemas or empty
ConcRequests ==
  {MockRequest(b, q, p) :
     b \in {Obj(<<P("name", Str("John")), P("age", Num(0))>>), Obj(<<>>)},
     q \in {Obj(<<P("name", Str("John")), P("age", Str("0"))>>), Obj(<<>>)},
     p \in {Obj(<<P("name", Str("John")), P("age", Str("0"))>>), Obj(<<>>)}}

InitConc ==
  /\ route \in ConcRoutes
  /\ pipeline = Install(route)
  /\ req \in [TwoRequests -> ConcRequests]
  /\ res \in [TwoRequests -> {MockResponse(l) : l \in Locals}]
  /\ pc = [r \in TwoRequests |-> 1]
  /\ calls = [r \in TwoRequests |-> <<>>]
  /\ pure = NoPure

SpecConc == InitConc /\ [][Next]_vars

\* the response as the first callable of the route found it
OrigRes(r) == IF Len(calls[r]) = 0 THEN res[r] ELSE calls[r][1].pre.res

\* one callable of the pipeline invoked for a request that is alone
SoloStep(st) ==
  LET mw == pipeline[st.pc]
  IN IF mw.fn = "handler"
     THEN [st EXCEPT !.pc = Len(pipeline) + 1]
     ELSE LET out == UnboundOutcome(mw.fn, mw.schema, mw.errorHandler, st.req, st.res)
          IN [req |-> out.req, res |-> out.res,
              pc |-> IF Len(out.next) > 0 THEN st.pc + 1 ELSE 0]

RECURSIVE SoloRun(_, _)
\* the first n invocations of the pipeline for a request that is alone
SoloRun(st, n) == IF n = 0 THEN st ELSE SoloStep(SoloRun(st, n - 1))

\* where request r would be after as many invocations, had it run alone
Alone(r) == SoloRun([req |-> Orig(r), res |-> OrigRes(r), pc |-> 1], Len(calls[r]))

IsReadmeRoute == route.api = "Validator.validate" /\ route.arg \in Schemas

\* C21: with Validator().validate(CODEC, handler), the codec passed directly
\* as the first argument, req.body is validated against CODEC before the
\* handler: the handler runs only for a body that conforms to CODEC, and
\* then sees the decoded value in req.body; a body that does not conform is
\* answered with 400.
C21_ReadmeValidatesBody ==
  IsReadmeRoute =>
    \A r \in Requests :
      LET result == decode(route.arg, Orig(r).body)
      IN /\ \A i \in 1..Len(calls[r]) :
              calls[r][i].mw.fn = "handler" =>
                /\ ~isLeft(result)
                /\ calls[r][i].pre.req.body = result.right
         /\ (isLeft(result) /\ pc[r] \notin 1..Len(pipeline)) =>
              res[r].statusCode = 400

\* the falsy values other than null and undefined a handler of the model returns
FalsyResults == {Num(0), Str(""), Bool(FALSE)}

\* C22: the JSON payload written on failure is never null or undefined:
\* when a supplied error handler, one bound through Validator included,
\* returns null or undefined the payload is { errors:
\* formatValidationErrors(issues) }; any other return value, the falsy 0, ""
\* and false included, is sent as it is.
C22_NullishOnlyFallback ==
  \A c \in Validations :
    (SchemaRejects(c) /\ ~IsNullish(c.mw.errorHandler)) =>
      LET r == callErrorHandler(c.mw.errorHandler, IssuesOf(c))
      IN /\ c.out.res.jsonData \notin {Null, Undef}
         /\ r \in {Null, Undef} => c.out.res.jsonData = DefaultPayload(IssuesOf(c))
         /\ r \notin {Null, Undef} => c.out.res.jsonData = r
         /\ c.mw.errorHandler \in {returnsZero, returnsEmptyString, returnsFalse} =>
              c.out.res.jsonData \in FalsyResults

\* a params step bound by Validator to a handler returning null sent the
\* default { errors } object
C22_Witness ==
  \E c \in Validations :
    /\ route.api = "Validator.validate"
    /\ c.mw.fn = "createCombinedParamsMiddleware"
    /\ c.mw.errorHandler = returnsNull
    /\ SchemaRejects(c)
    /\ c.out.res.jsonData = DefaultPayload(IssuesOf(c))
    /\ IsErrorsObject(c.out.res.jsonData)

\* step j of a validate chain ran before the step that rejected and had a schema
WroteBefore(j, k) == j < k /\ StepHasSchema(j)

\* what step j of a validate chain decodes its source of request rq to
StepDecoded(j, rq) == decode(pipeline[j].schema, StepSource(j, rq)).right

\* C23: a failing step leaves the request and the side-channel as it found
\* them: when a schema rejects its source, req.body, req.params, req.query and
\* every res.locals entry have the values they had when the step started; in a
\* validate chain only the writes of the earlier, successful steps are present
\* when the 400 is sent.
C23_FailureWritesNothing ==
  /\ \A c \in Validations :
       SchemaRejects(c) =>
         /\ c.out.req = c.pre.req
         /\ c.out.res.locals = c.pre.res.locals
         /\ WroteOne400(c)
  /\ \A r \in Requests :
       (IsValidateRoute /\ pc[r] = 0) =>
         LET k == Len(calls[r])
             o == Orig(r)
         IN /\ req[r].query = o.query
            /\ req[r].body = o.body
            /\ req[r].params = IF WroteBefore(2, k) THEN StepDecoded(2, o) ELSE o.params
            /\ \A j \in 1..3 :
                 /\ HasOwn(res[r].locals, ChainKeys[j]) = WroteBefore(j, k)
                 /\ WroteBefore(j, k) =>
                      Get(res[r].locals, ChainKeys[j]) = StepDecoded(j, o)
            /\ HasOwn(res[r].locals, "user") = HasOwn(OrigLocals(r), "user")
            /\ Get(res[r].locals, "user") = Get(OrigLocals(r), "user")

\* in a validate chain the query and params steps accepted and the body step
\* rejected: the 400 was sent with typedQuery and typedParams written, the
\* body raw and no typedBody
C23_Witness ==
  \E r \in Requests :
    /\ IsValidateRoute
    /\ pc[r] = 0
    /\ Len(calls[r]) = 3
    /\ StepHasSchema(1) /\ StepHasSchema(2)
    /\ SchemaRejects(calls[r][3])
    /\ res[r].statusCode = 400
    /\ HasOwn(res[r].locals, "typedQuery")
    /\ HasOwn(res[r].locals, "typedParams")
    /\ ~HasOwn(res[r].locals, "typedBody")
    /\ HasOwn(res[r].locals, "user")
    /\ req[r].body = Orig(r).body
    /\ req[r].params # Orig(r).params

\* ---- a validate chain driven to its end by the host ----

\* routes built by validate and by Validator(customErrorHandler).validate,
\* each source with the sample application's schema or with none
ChainRoutes ==
  {rt \in ConcRoutes :
     \/ rt.api = "validate"
     \/ rt.api = "Validator.validate" /\ rt.errorHandler = customErrorHandler}

InitLive ==
  /\ route \in ChainRoutes
  /\ pipeline = Install(route)
  /\ req \in [SingleRequest -> ConcRequests]
  /\ res = [r \in SingleRequest |-> MockResponse(Obj(<<>>))]
  /\ pc = [r \in SingleRequest |-> 1]
  /\ calls = [r \in SingleRequest |-> <<>>]
  /\ pure = NoPure

NextLive ==
  \E r \in Requests :
    \/ InvokeCombinedQuery(r)
    \/ InvokeCombinedParams(r)
    \/ InvokeCombinedBody(r)
    \/ InvokeHandler(r)

\* the host runs the next callable whenever next() has been called
SpecLive == InitLive /\ [][NextLive]_vars /\ WF_vars(NextLive)

\* the route handler has been invoked for request r
HandlerInvoked(r) == \E i \in 1..Len(calls[r]) : calls[r][i].mw.fn = "handler"

\* a 400 response has been written for request r
Wrote400(r) == res[r].statusCode = 400 /\ Len(res[r].sent) = 2

\* the validation steps that have run for request r
ValidationSteps(r) == {i \in 1..Len(calls[r]) : calls[r][i].mw.fn # "handler"}

\* no step of request r has deferred its decision, and r has at most one outcome
C24_Decided(r) ==
  /\ Cardinality(ValidationSteps(r)) <= 3
  /\ \A i \in ValidationSteps(r) :
       \/ CalledNextOnce(calls[r][i]) /\ WroteNoResponse(calls[r][i])
       \/ calls[r][i].out.next = <<>> /\ WroteOne400(calls[r][i])
  /\ ~(HandlerInvoked(r) /\ Wrote400(r))
  /\ pc[r] = 0 => Wrote400(r)
  /\ pc[r] = Len(pipeline) + 1 => HandlerInvoked(r)

\* C24: every request driven through a validate chain by a host that runs the
\* next callable whenever next() is called eventually reaches exactly one
\* terminal outcome, the handler invoked or a 400 written, after at most three
\* validation steps; every step has called next() or written the response when
\* it returns, so the chain never stalls between steps.
C24_Terminates ==
  /\ [](IsValidateRoute => \A r \in Requests : C24_Decided(r))
  /\ IsValidateRoute ~> (\A r \in Requests : HandlerInvoked(r) \/ Wrote400(r))

\* a validate chain with three schemas ran its three validation steps and
\* then the handler, no response written by the adapter
C24_Witness ==
  \E r \in Requests :
    /\ IsValidateRoute
    /\ StepHasSchema(1) /\ StepHasSchema(2) /\ StepHasSchema(3)
    /\ Cardinality(ValidationSteps(r)) = 3
    /\ HandlerInvoked(r)
    /\ ~Wrote400(r)
    /\ pc[r] = Len(pipeline) + 1

====
